---- MODULE Spec2Model ----
(***************************************************************************)
(* A model of pubmed-feed-pro: the SQLAlchemy store (core/database.py),    *)
(* the CLI pipeline run (core/cli.py run_search) and the scheduled         *)
(* pipeline run (core/scheduler.py JobScheduler._run_search).              *)
(*                                                                         *)
(* The specifications defined over the same state:                         *)
(*   StoreSpec : two concurrent callers issue arbitrary store write calls; *)
(*               each behaviour exercises the calls of one table (calls on *)
(*               different tables touch disjoint rows and commute);        *)
(*   Spec      : a CLI run and a scheduled run, each possibly repeated,    *)
(*               interleave at the granularity of store operations;        *)
(*   GenSpec   : the generation loop of one run with generate_all taken    *)
(*               one model call at a time (core/content_generator.py);     *)
(*   QuerySpec : generate_queries and combine_queries                      *)
(*               (core/llm_generator.py);                                  *)
(*   FetchSpec : search_and_fetch, one request at a time                   *)
(*               (core/pubmed_client.py);                                  *)
(*   LiveSpec  : the pipeline runs one after the other, with weak fairness *)
(*               of the steps of a started run;                            *)
(*   WebSpec   : requests to the web search operation (web/app.py          *)
(*               do_search) while the pipeline callers save articles.      *)
(***************************************************************************)
EXTENDS Integers, Sequences, FiniteSets, TLC

\* ------------------------------------------------------------------ bounds
MaxPmid == 2
MaxReportId == 2
MaxHistory == 2
MaxRuns == 2

Pmids == 1..MaxPmid
Titles == {"t1", "t2"}
Tables == {"articles", "reports", "search_history"}
Procs == {"cli", "sched"}
Callers == Procs \cup {"web"}

\* The four content variants of ContentGenerator.generate_all.
Variants == {"xiaohongshu_long", "xiaohongshu_short", "wechat_long", "wechat_short"}

VARIABLES
    articles,        \* table articles: set of rows [pmid, title]
    reports,         \* table reports: set of rows [id, article_ids, file_paths, article_count]
    search_history,  \* table search_history: set of rows [id, total_found, new_articles]
    files,           \* the report directory: set of [path, text]
    sess,            \* per caller: the store call in progress or just returned
    target,          \* StoreSpec: the table the callers of this behaviour write
    pc,              \* per pipeline run: position in run_search / _run_search
    run,             \* per pipeline run: its local variables
    prev,            \* per pipeline slot: what its previous completed run did
    generated,       \* every generate_all call made: <<slot, run number, pmid>>
    uuid_seq,        \* number of report identifiers handed out so far
    cg,              \* GenSpec: the generation loop of a run, one model call a step
    qg,              \* QuerySpec: generate_queries and combine_queries
    pm,              \* FetchSpec: search_and_fetch, one request a step
    web              \* WebSpec: the request do_search is serving

storeVars == <<articles, reports, search_history>>
pipeVars == <<files, target, pc, run, prev, generated, uuid_seq>>
coreVars == <<articles, reports, search_history, files, sess, target, pc, run, prev,
              generated, uuid_seq>>
unitVars == <<cg, qg, pm, web>>
vars == <<articles, reports, search_history, files, sess, target, pc, run, prev, generated,
          uuid_seq, cg, qg, pm, web>>

\* ------------------------------------------------------------- the store
\* A session that is not in a call.
NoCall ==
    [op |-> "none", stage |-> "closed", arg |-> <<>>, key |-> 0, existed |-> FALSE,
     error |-> "none", wrote |-> FALSE, ret |-> "unset", raised |-> FALSE]

\* session.query(Article).filter_by(pmid=...).first()
QueryArticle(pmid) == {a \in articles : a.pmid = pmid}

\* A lookup that finds nothing.
article_exists_never(pmid) == FALSE

\* article_exists: ... .first() is not None
article_exists(pmid) == QueryArticle(pmid) # {}

\* A table without the constraint.
NoPrimaryKey(table, key, value) == TRUE

\* The primary-key constraint of a table: an INSERT of a row whose key is
\* already present raises IntegrityError.
PrimaryKeyFree(table, key, value) == \A r \in table : r[key] # value

\* The row save_article builds from article_data (other columns carry no
\* decision of the model and are folded into title).
ArticleRow(article_data) == [pmid |-> article_data.pmid, title |-> article_data.title]

\* What save_article's handlers return.
SaveArticleOnExistingTrue == "True"
SaveArticleOnExisting == "False"
SaveArticleOnCommit == "True"
SaveArticleOnError == "False"

\* session.rollback(): what the open transaction wrote (txn is the table as
\* the transaction left it) is discarded; the committed table stays.
AfterRollbackKept(table, txn) == txn
AfterRollback(table, txn) == table

\* A handler that lets the exception out of the call.
RollbackReraise(s, why, failure) ==
    [s EXCEPT !.stage = "returned", !.arg = <<>>, !.error = why, !.wrote = FALSE,
              !.ret = "unset", !.raised = TRUE]

\* except Exception: session.rollback(); print; return <failure value>.  The
\* exception is not re-raised.
Rollback(s, why, failure) ==
    [s EXCEPT !.stage = "returned", !.arg = <<>>, !.error = why, !.wrote = FALSE,
              !.ret = failure, !.raised = FALSE]

\* commit succeeded; return value.
Committed(s, value) ==
    [s EXCEPT !.stage = "returned", !.arg = <<>>, !.wrote = TRUE, !.ret = value]

\* save_article, first half: open the session and look the identifier up.
save_article_query(p, article_data) ==
    /\ sess[p].stage \in {"closed", "returned"}
    /\ LET existing == QueryArticle(article_data.pmid)
           s == [NoCall EXCEPT !.op = "save_article", !.key = article_data.pmid,
                               !.existed = (\E a \in articles : a.pmid = article_data.pmid)]
       IN  sess' = [sess EXCEPT ![p] =
                IF existing # {}
                THEN [s EXCEPT !.stage = "returned", !.ret = SaveArticleOnExisting]
                ELSE [s EXCEPT !.stage = "commit", !.arg = ArticleRow(article_data)]]
    /\ UNCHANGED storeVars

\* save_article, first half, when the lookup itself fails: the except
\* branch.
save_article_query_fail(p, article_data) ==
    /\ sess[p].stage \in {"closed", "returned"}
    /\ LET s == [NoCall EXCEPT !.op = "save_article", !.key = article_data.pmid,
                               !.existed = (\E a \in articles : a.pmid = article_data.pmid)]
       IN  sess' = [sess EXCEPT ![p] = Rollback(s, "query", SaveArticleOnError)]
    /\ articles' = AfterRollback(articles, articles)
    /\ UNCHANGED <<reports, search_history>>

\* save_article whose insert replaces a row that holds the key.
save_article_commit_replace(p) ==
    /\ sess[p].op = "save_article"
    /\ sess[p].stage = "commit"
    /\ articles' = {a \in articles : a.pmid # sess[p].arg.pmid} \cup {sess[p].arg}
    /\ sess' = [sess EXCEPT ![p] = Committed(@, SaveArticleOnCommit)]
    /\ UNCHANGED <<reports, search_history>>

\* save_article, second half: session.add(article); session.commit().
save_article_commit(p) ==
    /\ sess[p].op = "save_article"
    /\ sess[p].stage = "commit"
    /\ IF PrimaryKeyFree(articles, "pmid", sess[p].arg.pmid)
       THEN /\ articles' = articles \cup {sess[p].arg}
            /\ sess' = [sess EXCEPT ![p] = Committed(@, SaveArticleOnCommit)]
       ELSE /\ articles' = AfterRollback(articles, articles)
            /\ sess' = [sess EXCEPT ![p] = Rollback(@, "integrity", SaveArticleOnError)]
    /\ UNCHANGED <<reports, search_history>>

\* save_article, second half, when the commit fails for a reason other than
\* the key (disk, lock): the except branch.
save_article_fail(p) ==
    /\ sess[p].op = "save_article"
    /\ sess[p].stage = "commit"
    /\ articles' = AfterRollback(articles, articles \cup {sess[p].arg})
    /\ sess' = [sess EXCEPT ![p] = Rollback(@, "io", SaveArticleOnError)]
    /\ UNCHANGED <<reports, search_history>>

\* A row whose article_count does not follow article_ids.
ReportRowCountOne(report_id, article_ids, file_paths) ==
    [id |-> report_id, article_ids |-> article_ids, file_paths |-> file_paths,
     article_count |-> 1]

\* The row save_report builds.
ReportRow(report_id, article_ids, file_paths) ==
    [id |-> report_id, article_ids |-> article_ids, file_paths |-> file_paths,
     article_count |-> Len(article_ids)]

\* save_report has no return statement: None on every path.
SaveReportOnCommit == "None"
SaveReportOnError == "None"

\* save_report that commits without having added the row.
save_report_no_add(p, report_id, article_ids, file_paths) ==
    /\ sess[p].stage \in {"closed", "returned"}
    /\ reports' = reports
    /\ sess' = [sess EXCEPT ![p] = Committed([NoCall EXCEPT !.op = "save_report",
                                                           !.key = report_id],
                                             SaveReportOnCommit)]
    /\ UNCHANGED <<articles, search_history>>

\* save_report: session.add(report); session.commit().
save_report(p, report_id, article_ids, file_paths) ==
    /\ sess[p].stage \in {"closed", "returned"}
    /\ LET s == [NoCall EXCEPT !.op = "save_report", !.key = report_id]
       IN  IF PrimaryKeyFree(reports, "id", report_id)
           THEN /\ reports' = reports \cup {ReportRow(report_id, article_ids, file_paths)}
                /\ sess' = [sess EXCEPT ![p] = Committed(s, SaveReportOnCommit)]
           ELSE /\ reports' = AfterRollback(reports, reports)
                /\ sess' = [sess EXCEPT ![p] = Rollback(s, "integrity", SaveReportOnError)]
    /\ UNCHANGED <<articles, search_history>>

\* save_report when the commit fails: the except branch.
save_report_fail(p, report_id, article_ids, file_paths) ==
    /\ sess[p].stage \in {"closed", "returned"}
    /\ LET s == [NoCall EXCEPT !.op = "save_report", !.key = report_id]
       IN  /\ reports' = AfterRollback(reports,
                          reports \cup {ReportRow(report_id, article_ids, file_paths)})
           /\ sess' = [sess EXCEPT ![p] = Rollback(s, "io", SaveReportOnError)]
    /\ UNCHANGED <<articles, search_history>>

\* The integer primary key of search_history: SQLite gives a new row the
\* largest id in the table plus one.
NextHistoryId ==
    IF search_history = {} THEN 1
    ELSE (CHOOSE m \in {h.id : h \in search_history} :
              \A h \in search_history : h.id <= m) + 1

HistoryRow(id, total_found, new_count) ==
    [id |-> id, total_found |-> total_found, new_articles |-> new_count]

\* save_search_history returns -1 from its except branch.
SaveHistoryOnError == -1

\* save_search_history: session.add(history); session.commit(); return history.id
save_search_history(p, total_found, new_count) ==
    /\ sess[p].stage \in {"closed", "returned"}
    /\ NextHistoryId <= MaxHistory
    /\ LET row == HistoryRow(NextHistoryId, total_found, new_count)
           s == [NoCall EXCEPT !.op = "save_search_history", !.key = row.id]
       IN  /\ search_history' = search_history \cup {row}
           /\ sess' = [sess EXCEPT ![p] = Committed(s, row.id)]
    /\ UNCHANGED <<articles, reports>>

\* save_search_history when the commit fails: the except branch.
save_search_history_fail(p, total_found, new_count) ==
    /\ sess[p].stage \in {"closed", "returned"}
    /\ NextHistoryId <= MaxHistory
    /\ LET row == HistoryRow(NextHistoryId, total_found, new_count)
           s == [NoCall EXCEPT !.op = "save_search_history"]
       IN  /\ search_history' = AfterRollback(search_history, search_history \cup {row})
           /\ sess' = [sess EXCEPT ![p] = Rollback(s, "io", SaveHistoryOnError)]
    /\ UNCHANGED <<articles, reports>>

\* What delete_search_history's handlers return.
DeleteHistoryOnMissing == "False"
DeleteHistoryOnCommit == "True"
DeleteHistoryOnError == "False"

\* delete_search_history, first half: look the row up.
delete_search_history_query(p, history_id) ==
    /\ sess[p].stage \in {"closed", "returned"}
    /\ LET history == {h \in search_history : h.id = history_id}
           s == [NoCall EXCEPT !.op = "delete_search_history", !.key = history_id,
                               !.existed = (\E h \in search_history : h.id = history_id)]
       IN  sess' = [sess EXCEPT ![p] =
                IF history # {}
                THEN [s EXCEPT !.stage = "commit"]
                ELSE [s EXCEPT !.stage = "returned", !.ret = DeleteHistoryOnMissing]]
    /\ UNCHANGED storeVars

\* delete_search_history, first half, when the lookup itself fails: the
\* except branch.
delete_search_history_query_fail(p, history_id) ==
    /\ sess[p].stage \in {"closed", "returned"}
    /\ LET s == [NoCall EXCEPT !.op = "delete_search_history", !.key = history_id,
                               !.existed = (\E h \in search_history : h.id = history_id)]
       IN  sess' = [sess EXCEPT ![p] = Rollback(s, "query", DeleteHistoryOnError)]
    /\ search_history' = AfterRollback(search_history, search_history)
    /\ UNCHANGED <<articles, reports>>

\* delete_search_history whose commit empties the table.
delete_search_history_commit_all(p) ==
    /\ sess[p].op = "delete_search_history"
    /\ sess[p].stage = "commit"
    /\ search_history' = {}
    /\ sess' = [sess EXCEPT ![p] = Committed(@, DeleteHistoryOnCommit)]
    /\ UNCHANGED <<articles, reports>>

\* delete_search_history, second half: session.delete(history); commit.
\* A DELETE that matches no row any more (a concurrent caller removed it)
\* is not an error.
delete_search_history_commit(p) ==
    /\ sess[p].op = "delete_search_history"
    /\ sess[p].stage = "commit"
    /\ search_history' = {h \in search_history : h.id # sess[p].key}
    /\ sess' = [sess EXCEPT ![p] = Committed(@, DeleteHistoryOnCommit)]
    /\ UNCHANGED <<articles, reports>>

\* delete_search_history when the commit fails: the except branch.
delete_search_history_fail(p) ==
    /\ sess[p].op = "delete_search_history"
    /\ sess[p].stage = "commit"
    /\ search_history' = AfterRollback(search_history,
                              {h \in search_history : h.id # sess[p].key})
    /\ sess' = [sess EXCEPT ![p] = Rollback(@, "io", DeleteHistoryOnError)]
    /\ UNCHANGED <<articles, reports>>

\* ---------------------------------------------------------- the pipeline
MaxFetch == 2

\* What search_and_fetch can return: the articles of the identifiers esearch
\* lists, each identifier once.  An article is its pmid; its title is
\* TitleOf(pmid).
FetchResults ==
    {q \in UNION {[1..n -> Pmids] : n \in 0..MaxFetch} :
        \A i, j \in 1..Len(q) : i # j => q[i] # q[j]}

TitleOf(pmid) == "t1"

\* PubMedArticle.to_dict()
to_dict(pmid) == [pmid |-> pmid, title |-> TitleOf(pmid)]

\* The model-call failure patterns a pipeline run meets: every call
\* answers, or every call fails.
FailurePatterns == {{}, Variants}

\* generate_all that leaves a variant without text when its model call
\* fails.
generate_all_no_fallback(pmid, failing) ==
    [v \in Variants |-> <<pmid, v, IF v \in failing THEN "missing" ELSE "llm">>]

\* generate_all: one entry per variant, the fallback template for a variant
\* whose model call failed.
generate_all(pmid, failing) ==
    [v \in Variants |-> <<pmid, v, IF v \in failing THEN "fallback" ELSE "llm">>]

\* An element of new_articles: {"article": article, "content": content}.
\* In dry-run mode content is None: has_content is FALSE.
Item(pmid, content) == [pmid |-> pmid, has_content |-> TRUE, content |-> content]
ItemNoContent(pmid) ==
    [pmid |-> pmid, has_content |-> FALSE, content |-> [v \in Variants |-> <<>>]]

\* The local variables of a run that has not started.
IdleRun ==
    [no |-> 0, dry_run |-> FALSE, articles |-> <<>>, fetched |-> FALSE, i |-> 1,
     new_articles |-> <<>>, ret |-> "unset", failed |-> "no", store0 |-> {},
     gen |-> 0, saved |-> {}, reports |-> {}, wrote |-> {}, report_id |-> 0,
     raised |-> {}, store_fault |-> FALSE]

NoPrev == [dry_run |-> FALSE, articles |-> <<>>, ret |-> "unset"]

StoredPmids == {a.pmid : a \in articles}

\* The value run_search returns from an except branch, and from its normal
\* ends; _run_search has no return statement.
CliOnErrorTrue == "True"
CliOnError == "False"
CliOnSuccess == "True"
CliOnRaise == "Raised"
SchedReturn == "None"

\* A run that stays where it is instead of ending.
FinishNever(p) ==
    /\ pc' = pc
    /\ run' = run

\* A run ends normally.
Finish(p) ==
    /\ pc' = [pc EXCEPT ![p] = "done"]
    /\ run' = [run EXCEPT ![p].ret = IF p = "cli" THEN CliOnSuccess ELSE SchedReturn]

\* A run ends in an except branch: run_search prints the error of the step
\* that raised and returns False; _run_search prints the error.
FinishError(p, step) ==
    /\ pc' = [pc EXCEPT ![p] = "done"]
    /\ run' = [run EXCEPT ![p].ret = IF p = "cli" THEN CliOnError ELSE SchedReturn,
                          ![p].failed = step]

\* main -> run_search(dry_run=...), or the scheduler firing _run_search.
Start(p, dry) ==
    /\ pc[p] \in {"idle", "done"}
    /\ run["cli"].no + run["sched"].no < MaxRuns
    /\ p = "sched" => ~dry
    /\ pc' = [pc EXCEPT ![p] = "translate"]
    /\ prev' = [prev EXCEPT ![p] =
                  IF pc[p] = "done"
                  THEN [dry_run |-> run[p].dry_run, articles |-> run[p].articles,
                        ret |-> run[p].ret]
                  ELSE @]
    /\ run' = [run EXCEPT ![p] = [IdleRun EXCEPT !.no = run[p].no + 1, !.dry_run = dry]]
    /\ sess' = [sess EXCEPT ![p] = NoCall]
    /\ UNCHANGED <<storeVars, files, target, generated, uuid_seq>>

\* generate_queries and combine_queries return.
TranslateQueries(p) ==
    /\ pc[p] = "translate"
    /\ pc' = [pc EXCEPT ![p] = "search"]
    /\ UNCHANGED <<storeVars, files, sess, target, run, prev, generated, uuid_seq>>

\* generate_queries or combine_queries raises.
TranslateRaises(p) ==
    /\ pc[p] = "translate"
    /\ FinishError(p, "translate")
    /\ UNCHANGED <<storeVars, files, sess, target, prev, generated, uuid_seq>>

\* search_and_fetch returns found; run_search returns True at once when it
\* is empty.
SearchAndFetch(p, found) ==
    /\ pc[p] = "search"
    /\ IF p = "cli" /\ found = <<>>
       THEN /\ pc' = [pc EXCEPT ![p] = "done"]
            /\ run' = [run EXCEPT ![p].fetched = TRUE, ![p].store0 = StoredPmids,
                                  ![p].ret = CliOnSuccess]
       ELSE /\ pc' = [pc EXCEPT ![p] = "loop"]
            /\ run' = [run EXCEPT ![p].articles = found, ![p].fetched = TRUE,
                                  ![p].store0 = StoredPmids]
    /\ UNCHANGED <<storeVars, files, sess, target, prev, generated, uuid_seq>>

\* search_and_fetch raises.
SearchRaises(p) ==
    /\ pc[p] = "search"
    /\ FinishError(p, "search")
    /\ UNCHANGED <<storeVars, files, sess, target, prev, generated, uuid_seq>>

\* The head of the loop over articles: db.article_exists(article.pmid).
DedupCheck(p) ==
    /\ pc[p] = "loop"
    /\ run[p].i <= Len(run[p].articles)
    /\ LET pmid == run[p].articles[run[p].i]
       IN  IF article_exists(pmid)
           THEN /\ run' = [run EXCEPT ![p].i = @ + 1]
                /\ pc' = pc
           ELSE IF run[p].dry_run
           THEN /\ run' = [run EXCEPT ![p].i = @ + 1,
                                      ![p].new_articles = Append(@, ItemNoContent(pmid))]
                /\ pc' = pc
           ELSE /\ run' = run
                /\ pc' = [pc EXCEPT ![p] = "generate"]
    /\ sess' = [sess EXCEPT ![p] = NoCall]
    /\ UNCHANGED <<storeVars, files, target, prev, generated, uuid_seq>>

\* db.article_exists(article.pmid) raises: the helper has no except branch
\* and the loop of run_search does not enclose the call, so the exception
\* leaves run_search for main, which prints it and returns 1.  In
\* _run_search it reaches the except branch of the run.
DedupCheckRaises(p) ==
    /\ pc[p] = "loop"
    /\ run[p].i <= Len(run[p].articles)
    /\ pc' = [pc EXCEPT ![p] = "done"]
    /\ run' = [run EXCEPT ![p].ret = IF p = "cli" THEN CliOnRaise ELSE SchedReturn,
                          ![p].failed = "dedup",
                          ![p].store_fault = TRUE]
    /\ sess' = [sess EXCEPT ![p] = NoCall]
    /\ UNCHANGED <<storeVars, files, target, prev, generated, uuid_seq>>

\* content = await content_gen.generate_all(article); new_articles.append(...)
GenerateContent(p, failing) ==
    /\ pc[p] = "generate"
    /\ LET pmid == run[p].articles[run[p].i]
       IN  /\ run' = [run EXCEPT ![p].gen = @ + 1,
                        ![p].new_articles = Append(@, Item(pmid, generate_all(pmid, failing)))]
           /\ generated' = generated \cup {<<p, run[p].no, pmid>>}
    /\ pc' = [pc EXCEPT ![p] = "save"]
    /\ UNCHANGED <<storeVars, files, sess, target, prev, uuid_seq>>

\* generate_all raises and the run saves the article all the same.
GenerateRaisesThenSave(p) ==
    /\ pc[p] = "generate"
    /\ run' = [run EXCEPT ![p].gen = @ + 1,
                          ![p].raised = @ \cup {run[p].articles[run[p].i]}]
    /\ generated' = generated \cup {<<p, run[p].no, run[p].articles[run[p].i]>>}
    /\ pc' = [pc EXCEPT ![p] = "save"]
    /\ UNCHANGED <<storeVars, files, sess, target, prev, uuid_seq>>

\* generate_all raises.  run_search prints the failure and goes on with the
\* next article: nothing is appended and save_article is not reached.  In
\* _run_search the exception leaves the loop for the except branch of the
\* run.
GenerateRaises(p) ==
    /\ pc[p] = "generate"
    /\ LET pmid == run[p].articles[run[p].i]
       IN  /\ generated' = generated \cup {<<p, run[p].no, pmid>>}
           /\ IF p = "cli"
              THEN /\ pc' = [pc EXCEPT ![p] = "loop"]
                   /\ run' = [run EXCEPT ![p].gen = @ + 1, ![p].i = @ + 1,
                                         ![p].raised = @ \cup {pmid}]
              ELSE /\ pc' = [pc EXCEPT ![p] = "done"]
                   /\ run' = [run EXCEPT ![p].gen = @ + 1, ![p].ret = SchedReturn,
                                         ![p].failed = "generate",
                                         ![p].raised = @ \cup {pmid}]
    /\ UNCHANGED <<storeVars, files, sess, target, prev, uuid_seq>>

\* db.save_article(article.to_dict()): the lookup.  The return value is not
\* read.
PersistQuery(p) ==
    /\ pc[p] = "save"
    /\ save_article_query(p, to_dict(run[p].articles[run[p].i]))
    /\ IF sess'[p].stage = "returned"
       THEN /\ pc' = [pc EXCEPT ![p] = "loop"]
            /\ run' = [run EXCEPT ![p].i = @ + 1]
       ELSE /\ pc' = [pc EXCEPT ![p] = "commit"]
            /\ run' = run
    /\ UNCHANGED <<files, target, prev, generated, uuid_seq>>

\* db.save_article(article.to_dict()): the lookup fails.
PersistQueryFails(p) ==
    /\ pc[p] = "save"
    /\ save_article_query_fail(p, to_dict(run[p].articles[run[p].i]))
    /\ pc' = [pc EXCEPT ![p] = "loop"]
    /\ run' = [run EXCEPT ![p].i = @ + 1, ![p].store_fault = TRUE]
    /\ UNCHANGED <<files, target, prev, generated, uuid_seq>>

\* db.save_article(article.to_dict()): the insert.
PersistCommit(p) ==
    /\ pc[p] = "commit"
    /\ save_article_commit(p)
    /\ pc' = [pc EXCEPT ![p] = "loop"]
    /\ run' = [run EXCEPT ![p].i = @ + 1,
                          ![p].saved = IF sess'[p].wrote THEN @ \cup {sess[p].key} ELSE @]
    /\ UNCHANGED <<files, target, prev, generated, uuid_seq>>

\* db.save_article(article.to_dict()): the insert fails.
PersistFails(p) ==
    /\ pc[p] = "commit"
    /\ save_article_fail(p)
    /\ pc' = [pc EXCEPT ![p] = "loop"]
    /\ run' = [run EXCEPT ![p].i = @ + 1, ![p].store_fault = TRUE]
    /\ UNCHANGED <<files, target, prev, generated, uuid_seq>>

\* The loop is over and the run goes on to create_report whatever it found.
LoopEndNoGuard(p) ==
    /\ pc[p] = "loop"
    /\ run[p].i > Len(run[p].articles)
    /\ pc' = [pc EXCEPT ![p] = "assemble"]
    /\ run' = run
    /\ sess' = [sess EXCEPT ![p] = NoCall]
    /\ UNCHANGED <<storeVars, files, target, prev, generated, uuid_seq>>

\* The loop is over: without new articles the run ends, with some it goes on
\* to create_report.
LoopEnd(p) ==
    /\ pc[p] = "loop"
    /\ run[p].i > Len(run[p].articles)
    /\ IF run[p].new_articles = <<>>
       THEN Finish(p)
       ELSE /\ pc' = [pc EXCEPT ![p] = "assemble"]
            /\ run' = run
    /\ sess' = [sess EXCEPT ![p] = NoCall]
    /\ UNCHANGED <<storeVars, files, target, prev, generated, uuid_seq>>

\* The files create_report writes for its items: one per item and variant,
\* named by variant and item index under the directory of the day; the
\* files of one call are distinct from those of every other call.
ReportFiles(id, items) ==
    {[path |-> <<v, i - 1, id>>, text |-> items[i].content[v]] :
        v \in Variants, i \in {j \in 1..Len(items) : items[j].has_content}}

WriteFiles(fs, new) == {f \in fs : \A g \in new : g.path # f.path} \cup new

\* create_report: the content files are written.
AssembleReport(p) ==
    /\ pc[p] = "assemble"
    /\ \A j \in 1..Len(run[p].new_articles) : run[p].new_articles[j].has_content
    /\ uuid_seq' = uuid_seq + 1
    /\ files' = WriteFiles(files, ReportFiles(uuid_seq + 1, run[p].new_articles))
    /\ run' = [run EXCEPT ![p].report_id = uuid_seq + 1,
                          ![p].wrote = {f.path : f \in ReportFiles(uuid_seq + 1,
                                                                  run[p].new_articles)}]
    /\ pc' = [pc EXCEPT ![p] = "persist"]
    /\ UNCHANGED <<storeVars, sess, target, prev, generated>>

\* create_report on items whose content is None, when it skips them.
AssembleNoContent(p) ==
    /\ pc[p] = "assemble"
    /\ \E j \in 1..Len(run[p].new_articles) : ~run[p].new_articles[j].has_content
    /\ uuid_seq' = uuid_seq + 1
    /\ files' = WriteFiles(files, ReportFiles(uuid_seq + 1, run[p].new_articles))
    /\ run' = [run EXCEPT ![p].report_id = uuid_seq + 1,
                          ![p].wrote = {f.path : f \in ReportFiles(uuid_seq + 1,
                                                                  run[p].new_articles)}]
    /\ pc' = [pc EXCEPT ![p] = "persist"]
    /\ UNCHANGED <<storeVars, sess, target, prev, generated>>

\* create_report on items whose content is None, when reading the content
\* raises: run_search's except branch.
AssembleRaises(p) ==
    /\ pc[p] = "assemble"
    /\ \E j \in 1..Len(run[p].new_articles) : ~run[p].new_articles[j].has_content
    /\ FinishError(p, "report")
    /\ UNCHANGED <<storeVars, files, sess, target, prev, generated, uuid_seq>>

ArticleIds(items) == [j \in 1..Len(items) |-> items[j].pmid]

\* After create_report returns: run_search goes on to the summary file,
\* _run_search is done.
AfterReport(p, id, fault) ==
    IF p = "cli"
    THEN /\ pc' = [pc EXCEPT ![p] = "summary"]
         /\ run' = [run EXCEPT ![p].report_id = id, ![p].store_fault = @ \/ fault]
    ELSE /\ pc' = [pc EXCEPT ![p] = "done"]
         /\ run' = [run EXCEPT ![p].report_id = id, ![p].ret = SchedReturn,
                               ![p].store_fault = @ \/ fault]

\* create_report: db.save_report(...) under the fresh identifier, return the
\* report.
PersistReport(p) ==
    /\ pc[p] = "persist"
    /\ save_report(p, run[p].report_id, ArticleIds(run[p].new_articles), run[p].wrote)
    /\ AfterReport(p, run[p].report_id, FALSE)
    /\ UNCHANGED <<files, target, prev, generated, uuid_seq>>

\* create_report: db.save_report fails and says nothing.
PersistReportFails(p) ==
    /\ pc[p] = "persist"
    /\ save_report_fail(p, run[p].report_id, ArticleIds(run[p].new_articles),
                        run[p].wrote)
    /\ AfterReport(p, run[p].report_id, TRUE)
    /\ UNCHANGED <<files, target, prev, generated, uuid_seq>>

\* run_search writes summary_<report_id>.txt and returns True.
WriteSummary(p) ==
    /\ pc[p] = "summary"
    /\ files' = WriteFiles(files, {[path |-> <<"summary", 0, run[p].report_id>>,
                                     text |-> <<0, "summary", "summary">>]})
    /\ pc' = [pc EXCEPT ![p] = "done"]
    /\ run' = [run EXCEPT ![p].ret = CliOnSuccess,
                          ![p].wrote = @ \cup {<<"summary", 0, run[p].report_id>>}]
    /\ UNCHANGED <<storeVars, sess, target, prev, generated, uuid_seq>>

Next ==
    \/ \E p \in Procs, dry \in BOOLEAN : Start(p, dry) /\ UNCHANGED unitVars
    \/ \E p \in Procs : TranslateQueries(p) /\ UNCHANGED unitVars
    \/ \E p \in Procs : TranslateRaises(p) /\ UNCHANGED unitVars
    \/ \E p \in Procs, found \in FetchResults : SearchAndFetch(p, found) /\ UNCHANGED unitVars
    \/ \E p \in Procs : SearchRaises(p) /\ UNCHANGED unitVars
    \/ \E p \in Procs : DedupCheck(p) /\ UNCHANGED unitVars
    \/ \E p \in Procs : DedupCheckRaises(p) /\ UNCHANGED unitVars
    \/ \E p \in Procs, failing \in FailurePatterns : GenerateContent(p, failing) /\ UNCHANGED unitVars
    \/ \E p \in Procs : GenerateRaises(p) /\ UNCHANGED unitVars
    \/ \E p \in Procs : PersistQuery(p) /\ UNCHANGED unitVars
    \/ \E p \in Procs : PersistQueryFails(p) /\ UNCHANGED unitVars
    \/ \E p \in Procs : PersistCommit(p) /\ UNCHANGED unitVars
    \/ \E p \in Procs : PersistFails(p) /\ UNCHANGED unitVars
    \/ \E p \in Procs : LoopEnd(p) /\ UNCHANGED unitVars
    \/ \E p \in Procs : AssembleReport(p) /\ UNCHANGED unitVars
    \/ \E p \in Procs : AssembleNoContent(p) /\ UNCHANGED unitVars
    \/ \E p \in Procs : AssembleRaises(p) /\ UNCHANGED unitVars
    \/ \E p \in Procs : PersistReport(p) /\ UNCHANGED unitVars
    \/ \E p \in Procs : PersistReportFails(p) /\ UNCHANGED unitVars
    \/ \E p \in Procs : WriteSummary(p) /\ UNCHANGED unitVars


\* ------------------------------------------------ the content generator
\* The loop of a run over its new articles (cli.py run_search), with
\* generate_all taken one model call at a time.  A text is a sequence of
\* tokens; an article carries the fields the templates read.
MaxGenArticles == 2
TitleCutLong == 50
TitleCutShort == 40
AuthorCut == 3

VariantOrder == <<"xiaohongshu_long", "xiaohongshu_short", "wechat_long", "wechat_short">>

LongTitle == [j \in 1..(TitleCutLong + 1) |-> "x"]

GenArticles ==
    {[pmid |-> "p1", title |-> LongTitle, journal |-> "j1", pub_date |-> "2024",
      authors |-> <<>>, keywords |-> <<>>],
     [pmid |-> "p2", title |-> <<"y">>, journal |-> "j2", pub_date |-> "",
      authors |-> <<"a1", "a2", "a3", "a4">>, keywords |-> <<"k1", "k2">>]}

GenInputs == UNION {[1..n -> GenArticles] : n \in 0..MaxGenArticles}

\* What the model endpoint can do with one call: answer with a text, or
\* fail (an error of the transport, or an answer without content).
ModelResponses == {<<" ", "r", " ">>}
ModelFailures == {"timeout", "malformed"}

\* s[:n]
Take(s, n) == SubSeq(s, 1, IF Len(s) < n THEN Len(s) ELSE n)

\* str.strip()
RECURSIVE StripLeft(_)
StripLeft(s) == IF s # <<>> /\ Head(s) = " " THEN StripLeft(Tail(s)) ELSE s

RECURSIVE StripRight(_)
StripRight(s) ==
    IF s # <<>> /\ s[Len(s)] = " " THEN StripRight(SubSeq(s, 1, Len(s) - 1)) ELSE s

Strip(s) == StripRight(StripLeft(s))

\* PubMedArticle.url
url(article) == <<"https://pubmed.ncbi.nlm.nih.gov/", article.pmid, "/">>

\* ", ".join(items)
RECURSIVE JoinComma(_)
JoinComma(items) ==
    IF items = <<>> THEN <<>>
    ELSE IF Len(items) = 1 THEN <<items[1]>>
    ELSE <<items[1], ", ">> \o JoinComma(Tail(items))

fallback_xiaohongshu_long(article) ==
    <<"xhs_long_head">> \o Take(article.title, TitleCutLong) \o <<"...">>
    \o <<article.journal, "xhs_long_body">> \o url(article)
    \o <<"#", IF article.keywords # <<>> THEN article.keywords[1] ELSE "default_tag">>

fallback_xiaohongshu_short(article) ==
    <<"xhs_short_head">> \o Take(article.title, TitleCutShort) \o <<"...">>
    \o <<article.journal, "xhs_short_body">> \o url(article) \o <<"xhs_short_tags">>

fallback_wechat_long(article) ==
    <<"wechat_long_head">> \o article.title \o <<"wechat_long_body">>
    \o (IF article.authors # <<>> THEN JoinComma(Take(article.authors, AuthorCut))
        ELSE <<"N/A">>)
    \o <<article.journal, article.pub_date>> \o url(article) \o <<article.pmid>>

fallback_wechat_short(article) ==
    <<"wechat_short_head">> \o article.title
    \o <<article.journal, "wechat_short_body">> \o url(article)

\* The template a variant falls back to.
Fallback(v, article) ==
    CASE v = "xiaohongshu_long" -> fallback_xiaohongshu_long(article)
      [] v = "xiaohongshu_short" -> fallback_xiaohongshu_short(article)
      [] v = "wechat_long" -> fallback_wechat_long(article)
      [] v = "wechat_short" -> fallback_wechat_short(article)

\* The loop before it starts.
CgIdle ==
    [stage |-> "off", dry_run |-> FALSE, articles |-> <<>>, i |-> 1, k |-> 1,
     inflight |-> {}, content |-> <<>>, outcome |-> <<>>, calls |-> <<>>,
     new_articles |-> <<>>, fallbacks |-> {}]

CgArticle == cg.articles[cg.i]
CgVariant == VariantOrder[cg.k]

\* The dry-run branch of the loop body: no generate_all.
GenLoopDry ==
    /\ cg.stage = "loop" /\ cg.i <= Len(cg.articles) /\ cg.dry_run
    /\ cg' = [cg EXCEPT !.i = @ + 1,
                        !.new_articles = Append(@, [article |-> CgArticle,
                                                    has_content |-> FALSE,
                                                    content |-> <<>>, outcome |-> <<>>])]
    /\ UNCHANGED <<coreVars, qg, pm, web>>

\* content_gen.generate_all(article) is entered.
GenerateAllBegin ==
    /\ cg.stage = "loop" /\ cg.i <= Len(cg.articles) /\ ~cg.dry_run
    /\ cg' = [cg EXCEPT !.stage = "prompt", !.k = 1, !.content = <<>>, !.outcome = <<>>]
    /\ UNCHANGED <<coreVars, qg, pm, web>>

\* generate_<variant>: the prompt is built and the one
\* chat.completions.create call of the variant is awaited.
IssueModelCall ==
    /\ cg.stage = "prompt"
    /\ cg' = [cg EXCEPT !.stage = "await", !.inflight = @ \cup {CgVariant},
                        !.calls = Append(@, <<cg.i, CgVariant>>)]
    /\ UNCHANGED <<coreVars, qg, pm, web>>

\* After a variant has its text: the next entry of the mapping, or the end
\* of generate_all.
AfterVariant(c) ==
    IF c.k < Len(VariantOrder)
    THEN [c EXCEPT !.stage = "prompt", !.k = @ + 1]
    ELSE [c EXCEPT !.stage = "return"]

\* The variant's call returns: response.choices[0].message.content.strip().
ModelAnswers(resp) ==
    /\ cg.stage = "await"
    /\ cg' = AfterVariant([cg EXCEPT
                 !.inflight = @ \ {CgVariant},
                 !.content = (CgVariant :> Strip(resp)) @@ @,
                 !.outcome = (CgVariant :> [kind |-> "ok", resp |-> resp]) @@ @])
    /\ UNCHANGED <<coreVars, qg, pm, web>>

\* What the except branch of a variant records.
FailedCall(c, kind, text) ==
    [c EXCEPT !.inflight = @ \ {CgVariant},
              !.content = (CgVariant :> text) @@ @,
              !.outcome = (CgVariant :> [kind |-> kind, resp |-> <<>>]) @@ @,
              !.fallbacks = @ \cup {[variant |-> CgVariant, article |-> CgArticle,
                                     kind |-> kind, at |-> c.i, text |-> text]}]

\* A failed call leaves its variant out of the mapping.
ModelFailsDropsVariant(kind) ==
    /\ cg.stage = "await"
    /\ cg' = AfterVariant([cg EXCEPT
                 !.inflight = @ \ {CgVariant},
                 !.outcome = (CgVariant :> [kind |-> kind, resp |-> <<>>]) @@ @])
    /\ UNCHANGED <<coreVars, qg, pm, web>>

\* A failed call is made again.
ModelFailsRetry(kind) ==
    /\ cg.stage = "await"
    /\ cg' = [cg EXCEPT !.stage = "prompt", !.inflight = @ \ {CgVariant}]
    /\ UNCHANGED <<coreVars, qg, pm, web>>

\* A failed call puts the kind of the failure into the text.
ModelFailsKindText(kind) ==
    /\ cg.stage = "await"
    /\ cg' = AfterVariant(FailedCall(cg, kind, Fallback(CgVariant, CgArticle) \o <<kind>>))
    /\ UNCHANGED <<coreVars, qg, pm, web>>

\* The variant's call, or the reading of its answer, raises: the except
\* branch returns the variant's template.
ModelFails(kind) ==
    /\ cg.stage = "await"
    /\ cg' = AfterVariant(FailedCall(cg, kind, Fallback(CgVariant, CgArticle)))
    /\ UNCHANGED <<coreVars, qg, pm, web>>

\* generate_all returns the mapping; the loop body appends the item.
GenerateAllReturn ==
    /\ cg.stage = "return"
    /\ cg' = [cg EXCEPT !.stage = "loop", !.i = @ + 1,
                        !.new_articles = Append(@, [article |-> CgArticle,
                                                    has_content |-> TRUE,
                                                    content |-> cg.content,
                                                    outcome |-> cg.outcome])]
    /\ UNCHANGED <<coreVars, qg, pm, web>>

\* The loop over the articles is over.
GenLoopEnd ==
    /\ cg.stage = "loop" /\ cg.i > Len(cg.articles)
    /\ cg' = [cg EXCEPT !.stage = "done"]
    /\ UNCHANGED <<coreVars, qg, pm, web>>

GenNext ==
    \/ GenLoopDry
    \/ GenerateAllBegin
    \/ IssueModelCall
    \/ \E resp \in ModelResponses : ModelAnswers(resp)
    \/ \E kind \in ModelFailures : ModelFails(kind)
    \/ GenerateAllReturn
    \/ GenLoopEnd

\* -------------------------------------------------- the query generator
\* generate_queries and combine_queries (llm_generator.py), one model call
\* a step.  An interest and a query are sequences of tokens.
MaxInterests == 3

Interests == {<<"i1">>, <<"i2", " ", "i3">>}

InterestLists == UNION {[1..n -> Interests] : n \in 0..MaxInterests}

QueryResponses == {<<" ", "q", " ">>}

\* f'({interest})[Title/Abstract]'
WrapInterest(interest) == <<"(">> \o interest \o <<")", "[Title/Abstract]">>

\* " OR ".join(f"({q})" for q in queries)
RECURSIVE JoinOr(_)
JoinOr(queries) ==
    IF queries = <<>> THEN <<>>
    ELSE IF Len(queries) = 1 THEN <<"(">> \o queries[1] \o <<")">>
    ELSE <<"(">> \o queries[1] \o <<")", " OR ">> \o JoinOr(Tail(queries))

\* Every query is wrapped, a single one too.
combine_queries_always_wrap(queries) == JoinOr(queries)

combine_queries(queries) ==
    IF Len(queries) = 1 THEN queries[1] ELSE JoinOr(queries)

QgIdle ==
    [stage |-> "off", interests |-> <<>>, i |-> 1, queries |-> <<>>, outcome |-> <<>>,
     calls |-> <<>>, combined |-> <<>>]

\* generate_query(interest): the chat.completions.create call is awaited.
IssueQueryCall ==
    /\ qg.stage = "loop" /\ qg.i <= Len(qg.interests)
    /\ qg' = [qg EXCEPT !.stage = "await", !.calls = Append(@, qg.i)]
    /\ UNCHANGED <<coreVars, cg, pm, web>>

\* The call returns: response.choices[0].message.content.strip() is the
\* query, appended by generate_queries.
QueryAnswers(resp) ==
    /\ qg.stage = "await"
    /\ qg' = [qg EXCEPT !.stage = "loop", !.i = @ + 1,
                        !.queries = Append(@, Strip(resp)),
                        !.outcome = Append(@, "ok")]
    /\ UNCHANGED <<coreVars, cg, pm, web>>

\* A failed call leaves generate_query with the exception.
QueryFailsRaises(kind) ==
    /\ qg.stage = "await"
    /\ qg' = [qg EXCEPT !.stage = "raised", !.outcome = Append(@, kind)]
    /\ UNCHANGED <<coreVars, cg, pm, web>>

\* The call, or the reading of its answer, raises: the except branch
\* returns the wrapped interest.
QueryFails(kind) ==
    /\ qg.stage = "await"
    /\ qg' = [qg EXCEPT !.stage = "loop", !.i = @ + 1,
                        !.queries = Append(@, WrapInterest(qg.interests[qg.i])),
                        !.outcome = Append(@, kind)]
    /\ UNCHANGED <<coreVars, cg, pm, web>>

\* generate_queries returns; combine_queries(queries).
CombineQueries ==
    /\ qg.stage = "loop" /\ qg.i > Len(qg.interests)
    /\ qg' = [qg EXCEPT !.stage = "done", !.combined = combine_queries(qg.queries)]
    /\ UNCHANGED <<coreVars, cg, pm, web>>

QueryNext ==
    \/ IssueQueryCall
    \/ \E resp \in QueryResponses : QueryAnswers(resp)
    \/ \E kind \in ModelFailures : QueryFails(kind)
    \/ CombineQueries

\* ------------------------------------------------- the literature client
\* search_and_fetch (pubmed_client.py): search, then fetch_articles one
\* efetch request a step.
MaxNodes == 2
batch_size == 100

\* The lengths of the identifier lists esearch answers with.
IdCounts == {0, 1, batch_size, batch_size + 1, 2 * batch_size}

\* What the esearch request can come to.  The first five end in the except
\* branch: the request raises, raise_for_status raises, json.loads raises,
\* or .get is called on a value that is not an object.
SearchErrors ==
    {"network_error", "http_error", "not_json", "json_not_object", "result_not_object"}

SearchResponses ==
    {[kind |-> k, n |-> 0] : k \in SearchErrors \cup {"no_result", "no_idlist"}}
    \cup {[kind |-> "ok", n |-> n] : n \in IdCounts}

\* data.get("esearchresult", {}).get("idlist", [])
IdList(resp) == IF resp.kind = "ok" THEN [j \in 1..resp.n |-> j] ELSE <<>>

\* What the efetch request of a batch can come to: an exception (of the
\* request, of raise_for_status, of ET.fromstring), or a document of
\* PubmedArticle nodes.  Of a node the model keeps the text of its PMID and
\* of its ArticleTitle ("" when the element or its text is missing) and
\* whether reading its other fields raises.
FetchErrors == {"network_error", "http_error", "bad_xml"}

Nodes == [pmid : {"", "7"}, title : {"", "t"}, broken : BOOLEAN]

Documents == UNION {[1..n -> Nodes] : n \in 0..MaxNodes}

\* The body of the loop over the nodes of a document.
ParseNode(node) ==
    IF node.broken THEN <<>>
    ELSE IF node.pmid # "" /\ node.title # ""
    THEN <<[pmid |-> node.pmid, title |-> node.title]>>
    ELSE <<>>

\* A node that raises ends the loop over the nodes.
RECURSIVE ParseNodesStopAtBroken(_)
ParseNodesStopAtBroken(nodes) ==
    IF nodes = <<>> \/ Head(nodes).broken THEN <<>>
    ELSE ParseNode(Head(nodes)) \o ParseNodesStopAtBroken(Tail(nodes))

\* A node is kept for its identifier alone.
RECURSIVE ParseNodesNoTitleCheck(_)
ParseNodesNoTitleCheck(nodes) ==
    IF nodes = <<>> THEN <<>>
    ELSE (IF ~Head(nodes).broken /\ Head(nodes).pmid # ""
          THEN <<[pmid |-> Head(nodes).pmid, title |-> Head(nodes).title]>>
          ELSE <<>>) \o ParseNodesNoTitleCheck(Tail(nodes))

\* for article in root.findall(".//PubmedArticle"): ...
RECURSIVE ParseNodes(_)
ParseNodes(nodes) ==
    IF nodes = <<>> THEN <<>>
    ELSE ParseNode(Head(nodes)) \o ParseNodes(Tail(nodes))

PmIdle ==
    [stage |-> "off", resp |-> "none", pmids |-> <<>>, i |-> 0, requests |-> <<>>,
     docs |-> <<>>, articles |-> <<>>, fetch_error |-> "none"]

\* search lets the exception of a failed request out.
search_reraise(resp) ==
    /\ pm.stage = "search"
    /\ pm' = [pm EXCEPT !.stage = IF resp.kind \in SearchErrors THEN "raised" ELSE "fetch",
                        !.resp = resp.kind, !.pmids = IdList(resp)]
    /\ UNCHANGED <<coreVars, cg, qg, web>>

\* pmids = self.search(query, days, max_results): the identifier list of
\* the answer, or [] from the except branch.
search(resp) ==
    /\ pm.stage = "search"
    /\ pm' = [pm EXCEPT !.stage = "fetch", !.resp = resp.kind,
                        !.pmids = IF resp.kind \in SearchErrors THEN <<>> ELSE IdList(resp)]
    /\ UNCHANGED <<coreVars, cg, qg, web>>

\* fetch_articles(pmids): without identifiers it returns [] at once.
fetch_articles ==
    /\ pm.stage = "fetch"
    /\ pm' = [pm EXCEPT !.stage = IF pm.pmids = <<>> THEN "done" ELSE "batch"]
    /\ UNCHANGED <<coreVars, cg, qg, web>>

\* pmids[i : i + batch_size]
Batch == SubSeq(pm.pmids, pm.i + 1,
                IF pm.i + batch_size < Len(pm.pmids) THEN pm.i + batch_size
                ELSE Len(pm.pmids))

\* One turn of the loop over the batches: the request is answered with a
\* document and its nodes are parsed.
FetchBatch(nodes) ==
    /\ pm.stage = "batch" /\ pm.i < Len(pm.pmids)
    /\ pm' = [pm EXCEPT !.i = @ + batch_size,
                        !.requests = Append(@, Batch),
                        !.docs = Append(@, nodes),
                        !.articles = @ \o ParseNodes(nodes)]
    /\ UNCHANGED <<coreVars, cg, qg, web>>

\* One turn of the loop over the batches: the request or ET.fromstring
\* raises.  The except branch is outside the loop: fetch_articles prints
\* the error and returns the articles it has.
FetchBatchFails(kind) ==
    /\ pm.stage = "batch" /\ pm.i < Len(pm.pmids)
    /\ pm' = [pm EXCEPT !.stage = "done",
                        !.requests = Append(@, Batch),
                        !.fetch_error = kind]
    /\ UNCHANGED <<coreVars, cg, qg, web>>

\* The loop over the batches is over: return articles.
FetchReturn ==
    /\ pm.stage = "batch" /\ pm.i >= Len(pm.pmids)
    /\ pm' = [pm EXCEPT !.stage = "done"]
    /\ UNCHANGED <<coreVars, cg, qg, web>>

FetchNext ==
    \/ \E resp \in SearchResponses : search(resp)
    \/ fetch_articles
    \/ \E nodes \in Documents : FetchBatch(nodes)
    \/ \E kind \in FetchErrors : FetchBatchFails(kind)
    \/ FetchReturn

\* ------------------------------------------------ the web search operation
\* do_search (web/app.py): generate the query, search_and_fetch, filter the
\* fetched articles through db.article_exists, score, save one history
\* entry, answer.  The handler makes its store calls as caller "web".
WebIdle == [stage |-> "idle", articles |-> <<>>, i |-> 1, new_articles |-> <<>>,
            status |-> "none"]

webFrame == <<files, target, pc, run, prev, generated, uuid_seq, cg, qg, pm>>

\* A request with an interest index out of range: HTTPException 400 before
\* anything is searched.
WebInvalidInterest ==
    /\ web.stage \in {"idle", "done"}
    /\ web' = [WebIdle EXCEPT !.stage = "done", !.status = "invalid"]
    /\ UNCHANGED <<storeVars, sess, webFrame>>

\* articles = client.search_and_fetch(query, ...)
WebSearch(found) ==
    /\ web.stage \in {"idle", "done"}
    /\ web' = [WebIdle EXCEPT !.stage = "filter", !.articles = found]
    /\ UNCHANGED <<storeVars, sess, webFrame>>

\* new_articles = [a for a in articles if not db.article_exists(a.pmid)]:
\* one lookup.
WebCheck ==
    /\ web.stage = "filter"
    /\ web.i <= Len(web.articles)
    /\ web' = [web EXCEPT !.i = @ + 1,
                          !.new_articles = IF article_exists(web.articles[web.i])
                                           THEN @
                                           ELSE Append(@, web.articles[web.i])]
    /\ UNCHANGED <<storeVars, sess, webFrame>>

\* db.article_exists raises: the exception leaves do_search and the request
\* is answered with an error.
WebCheckRaises ==
    /\ web.stage = "filter"
    /\ web.i <= Len(web.articles)
    /\ web' = [web EXCEPT !.stage = "done", !.status = "error"]
    /\ UNCHANGED <<storeVars, sess, webFrame>>

\* do_search that hands the two counts over in the other order.
WebSaveHistorySwapped ==
    /\ web.stage = "filter"
    /\ web.i > Len(web.articles)
    /\ save_search_history("web", Len(web.new_articles), Len(web.articles))
    /\ web' = [web EXCEPT !.stage = "done", !.status = "success"]
    /\ UNCHANGED webFrame

\* db.save_search_history(query, natural_language, total_found=len(articles),
\* new_articles=len(new_articles)); return {"status": "success", ...}.  The
\* value save_search_history returns is not read.
WebSaveHistory ==
    /\ web.stage = "filter"
    /\ web.i > Len(web.articles)
    /\ save_search_history("web", Len(web.articles), Len(web.new_articles))
    /\ web' = [web EXCEPT !.stage = "done", !.status = "success"]
    /\ UNCHANGED webFrame

\* The same when the write of the history entry fails.
WebSaveHistoryFails ==
    /\ web.stage = "filter"
    /\ web.i > Len(web.articles)
    /\ save_search_history_fail("web", Len(web.articles), Len(web.new_articles))
    /\ web' = [web EXCEPT !.stage = "done", !.status = "success"]
    /\ UNCHANGED webFrame

\* ------------------------------------------------- the store on its own
\* The arguments the callers of StoreSpec draw from.
ArticleData == [pmid : Pmids, title : Titles]
ArticleIdLists == {<<1>>, <<1, 2>>}
FilePathMaps == {{"xiaohongshu_long_0"}}
HistoryCounts == {<<0, 0>>, <<2, 1>>}

Init ==
    /\ articles = {}
    /\ reports = {}
    /\ search_history = {}
    /\ files = {}
    /\ sess = [p \in Callers |-> NoCall]
    /\ target = "all"
    /\ pc = [p \in Procs |-> "idle"]
    /\ run = [p \in Procs |-> IdleRun]
    /\ prev = [p \in Procs |-> NoPrev]
    /\ generated = {}
    /\ uuid_seq = 0
    /\ cg = CgIdle
    /\ qg = QgIdle
    /\ pm = PmIdle
    /\ web = WebIdle

StoreInit ==
    /\ articles = {}
    /\ reports = {}
    /\ search_history = {}
    /\ files = {}
    /\ sess = [p \in Callers |-> NoCall]
    /\ target \in Tables
    /\ pc = [p \in Procs |-> "idle"]
    /\ run = [p \in Procs |-> IdleRun]
    /\ prev = [p \in Procs |-> NoPrev]
    /\ generated = {}
    /\ uuid_seq = 0
    /\ cg = CgIdle
    /\ qg = QgIdle
    /\ pm = PmIdle
    /\ web = WebIdle

StoreNext ==
    \/ \E p \in Procs, d \in ArticleData :
          target = "articles" /\ save_article_query(p, d) /\ UNCHANGED <<pipeVars, unitVars>>
    \/ \E p \in Procs, d \in ArticleData :
          target = "articles" /\ save_article_query_fail(p, d) /\ UNCHANGED <<pipeVars, unitVars>>
    \/ \E p \in Procs : save_article_commit(p) /\ UNCHANGED <<pipeVars, unitVars>>
    \/ \E p \in Procs : save_article_fail(p) /\ UNCHANGED <<pipeVars, unitVars>>
    \/ \E p \in Procs, id \in 1..MaxReportId, ids \in ArticleIdLists, fp \in FilePathMaps :
          target = "reports" /\ save_report(p, id, ids, fp) /\ UNCHANGED <<pipeVars, unitVars>>
    \/ \E p \in Procs, id \in 1..MaxReportId, ids \in ArticleIdLists, fp \in FilePathMaps :
          target = "reports" /\ save_report_fail(p, id, ids, fp) /\ UNCHANGED <<pipeVars, unitVars>>
    \/ \E p \in Procs, c \in HistoryCounts :
          target = "search_history" /\ save_search_history(p, c[1], c[2])
          /\ UNCHANGED <<pipeVars, unitVars>>
    \/ \E p \in Procs, c \in HistoryCounts :
          target = "search_history" /\ save_search_history_fail(p, c[1], c[2])
          /\ UNCHANGED <<pipeVars, unitVars>>
    \/ \E p \in Procs, id \in 1..MaxHistory :
          target = "search_history" /\ delete_search_history_query(p, id)
          /\ UNCHANGED <<pipeVars, unitVars>>
    \/ \E p \in Procs, id \in 1..MaxHistory :
          target = "search_history" /\ delete_search_history_query_fail(p, id)
          /\ UNCHANGED <<pipeVars, unitVars>>
    \/ \E p \in Procs : delete_search_history_commit(p) /\ UNCHANGED <<pipeVars, unitVars>>
    \/ \E p \in Procs : delete_search_history_fail(p) /\ UNCHANGED <<pipeVars, unitVars>>

StoreSpec == StoreInit /\ [][StoreNext]_vars

\* The state of everything but one component: nothing stored, no run.
CoreIdle ==
    /\ articles = {}
    /\ reports = {}
    /\ search_history = {}
    /\ files = {}
    /\ sess = [p \in Callers |-> NoCall]
    /\ target = "all"
    /\ pc = [p \in Procs |-> "idle"]
    /\ run = [p \in Procs |-> IdleRun]
    /\ prev = [p \in Procs |-> NoPrev]
    /\ generated = {}
    /\ uuid_seq = 0

GenInit ==
    /\ CoreIdle
    /\ cg \in {[CgIdle EXCEPT !.stage = "loop", !.articles = a, !.dry_run = d] :
                  a \in GenInputs, d \in BOOLEAN}
    /\ qg = QgIdle
    /\ pm = PmIdle
    /\ web = WebIdle

GenSpec == GenInit /\ [][GenNext]_vars

QueryInit ==
    /\ CoreIdle
    /\ cg = CgIdle
    /\ qg \in {[QgIdle EXCEPT !.stage = "loop", !.interests = l] : l \in InterestLists}
    /\ pm = PmIdle
    /\ web = WebIdle

QuerySpec == QueryInit /\ [][QueryNext]_vars

FetchInit ==
    /\ CoreIdle
    /\ cg = CgIdle
    /\ qg = QgIdle
    /\ pm = [PmIdle EXCEPT !.stage = "search"]
    /\ web = WebIdle

FetchSpec == FetchInit /\ [][FetchNext]_vars

Spec == Init /\ [][Next]_vars

\* do_search serving requests while the pipeline callers save articles.
WebInit ==
    /\ CoreIdle
    /\ cg = CgIdle
    /\ qg = QgIdle
    /\ pm = PmIdle
    /\ web = WebIdle

WebNext ==
    \/ WebInvalidInterest
    \/ \E found \in FetchResults : WebSearch(found)
    \/ WebCheck
    \/ WebCheckRaises
    \/ WebSaveHistory
    \/ WebSaveHistoryFails
    \/ \E p \in Procs, d \in ArticleData :
          save_article_query(p, d) /\ UNCHANGED <<pipeVars, unitVars>>
    \/ \E p \in Procs : save_article_commit(p) /\ UNCHANGED <<pipeVars, unitVars>>

WebSpec == WebInit /\ [][WebNext]_vars

\* A step of a run that has started: every await of run_search and
\* _run_search returns or raises, and every store call returns.
RunStep(p) ==
    /\ \/ TranslateQueries(p)
       \/ TranslateRaises(p)
       \/ \E found \in FetchResults : SearchAndFetch(p, found)
       \/ SearchRaises(p)
       \/ DedupCheck(p)
       \/ DedupCheckRaises(p)
       \/ \E failing \in FailurePatterns : GenerateContent(p, failing)
       \/ GenerateRaises(p)
       \/ PersistQuery(p)
       \/ PersistQueryFails(p)
       \/ PersistCommit(p)
       \/ PersistFails(p)
       \/ LoopEnd(p)
       \/ AssembleReport(p)
       \/ AssembleNoContent(p)
       \/ AssembleRaises(p)
       \/ PersistReport(p)
       \/ PersistReportFails(p)
       \/ WriteSummary(p)
    /\ UNCHANGED unitVars

\* The runs taken one after the other: no step of a run waits for another
\* run, which shows to it only as the contents of the store.
LiveNext ==
    \/ \E p \in Procs, dry \in BOOLEAN :
          /\ \A q \in Procs : pc[q] \in {"idle", "done"}
          /\ Start(p, dry)
          /\ UNCHANGED unitVars
    \/ \E p \in Procs : RunStep(p)

\* The event loop resumes a started run whenever one of its calls has
\* returned or raised.
LiveSpec == Init /\ [][LiveNext]_vars /\ \A p \in Procs : WF_vars(RunStep(p))

\* ------------------------------------------------------ claims on the store
WriteOps == {"save_article", "save_report", "save_search_history", "delete_search_history"}

Returned(p, op) == sess[p].op = op /\ sess[p].stage = "returned"

\* C3: save_article returns true only if this call newly inserted the
\* article, returns false when a record with the identifier already existed,
\* and the articles table never holds two records with one identifier.
C3_SaveArticleDedupGate ==
    /\ \A a1, a2 \in articles : a1.pmid = a2.pmid => a1 = a2
    /\ \A p \in Procs : Returned(p, "save_article") =>
          /\ sess[p].ret = "True" =>
                (~sess[p].existed /\ sess[p].wrote /\ article_exists(sess[p].key))
          /\ sess[p].existed => (sess[p].ret = "False" /\ ~sess[p].wrote)

\* C3 witness: one caller's save_article returned true and the other's, on
\* the same identifier, found the record and returned false.
C3_Witness ==
    /\ Returned("cli", "save_article") /\ sess["cli"].ret = "True"
    /\ Returned("sched", "save_article") /\ sess["sched"].existed
    /\ sess["sched"].ret = "False" /\ sess["sched"].key = sess["cli"].key

\* Two callers whose save_article calls on one identifier both found no
\* record when they looked.
Raced(p, q) ==
    /\ p # q
    /\ Returned(p, "save_article") /\ Returned(q, "save_article")
    /\ sess[p].key = sess[q].key
    /\ ~sess[p].existed /\ ~sess[q].existed
    /\ sess[p].error # "query" /\ sess[q].error # "query"

C5_FailedWriteRolledBack ==
    [][\A p \in Procs :
          (sess'[p] # sess[p] /\ sess'[p].stage = "returned" /\ sess'[p].error # "none")
          => /\ sess'[p].op \in WriteOps
             /\ articles' = articles /\ reports' = reports
             /\ search_history' = search_history
             /\ ~sess'[p].raised]_vars

\* C5 witness: a delete_search_history call failed at commit while the row
\* it was to delete is in the table.
C5_Witness ==
    /\ Returned("cli", "delete_search_history") /\ sess["cli"].error = "io"
    /\ \E h \in search_history : h.id = sess["cli"].key

\* C6 (as claimed): for every store write operation the value returned
\* after a failed write differs from the value returned after a successful
\* write.
C6_FailureVisibleInReturn ==
    \A p, q \in Procs :
        (/\ sess[p].stage = "returned" /\ sess[q].stage = "returned"
         /\ sess[p].op = sess[q].op
         /\ sess[p].error # "none" /\ sess[q].wrote)
        => sess[p].ret # sess[q].ret


\* Caller p returns from the store operation op in this step.
Returns(p, op) ==
    /\ sess'[p] # sess[p]
    /\ sess'[p].op = op
    /\ sess'[p].stage = "returned"

HistoryIds == {h.id : h \in search_history}

\* No entry of the history is modified in this step: an identifier that
\* stays keeps its entry.
NoHistoryEntryModified ==
    \A h \in search_history' : h.id \in HistoryIds => h \in search_history

\* C24 (as claimed): save_search_history adds exactly one entry with an
\* identifier no entry has and leaves the others; delete_search_history
\* returns true and removes exactly the entry when it existed at the call,
\* returns false and leaves the history when it did not; no step modifies
\* an entry.
C24_HistoryAppendOnly ==
    [][/\ NoHistoryEntryModified
       /\ \A p \in Procs :
            /\ Returns(p, "save_search_history") =>
                  \E h \in search_history' :
                     /\ h.id \notin HistoryIds
                     /\ search_history' = search_history \cup {h}
            /\ Returns(p, "delete_search_history") =>
                  IF sess'[p].existed
                  THEN /\ sess'[p].ret = "True"
                       /\ search_history' = {h \in search_history : h.id # sess'[p].key}
                  ELSE /\ sess'[p].ret = "False"
                       /\ search_history' = search_history]_vars

\* C24 (amended): no step modifies an entry.  save_search_history either
\* adds exactly one entry, with an identifier no entry has, and returns
\* that identifier, or on an error adds nothing and returns -1.
\* delete_search_history returns true exactly when the entry existed at its
\* lookup and neither lookup nor commit failed, and then the history is the
\* old one without that identifier (a concurrent delete may have removed
\* the entry already); otherwise it returns false and leaves the history.
C24_HistoryAppendOnlyUnlessError ==
    [][/\ NoHistoryEntryModified
       /\ \A p \in Procs :
            /\ Returns(p, "save_search_history") =>
                  IF sess'[p].error = "none"
                  THEN \E h \in search_history' :
                          /\ h.id \notin HistoryIds
                          /\ search_history' = search_history \cup {h}
                          /\ sess'[p].ret = h.id
                  ELSE /\ search_history' = search_history
                       /\ sess'[p].ret = SaveHistoryOnError
            /\ Returns(p, "delete_search_history") =>
                  IF sess'[p].existed /\ sess'[p].error = "none"
                  THEN /\ sess'[p].ret = "True"
                       /\ search_history' = {h \in search_history : h.id # sess'[p].key}
                  ELSE /\ sess'[p].ret = "False"
                       /\ search_history' = search_history]_vars

\* C24 witness: a delete_search_history call has returned true, its entry
\* is gone and another entry is still there.
C24_Witness ==
    \E p \in Procs :
        /\ sess[p].op = "delete_search_history" /\ sess[p].stage = "returned"
        /\ sess[p].ret = "True"
        /\ sess[p].key \notin HistoryIds
        /\ search_history # {}

\* C27: a stored article is never mutated or deleted.  Every step of the
\* store, a save_article call for a stored identifier with other field
\* values included, keeps every article row as it is, so the set of stored
\* identifiers only grows.
C27_ArticlesImmutable ==
    [][/\ \A a \in articles : a \in articles'
       /\ StoredPmids \subseteq {a.pmid : a \in articles'}]_vars

\* C27 witness: one caller has stored an article and the other caller's
\* save_article, for the same identifier with another title, has passed its
\* lookup and is about to insert.
C27_Witness ==
    \E p \in Procs, a \in articles :
        /\ sess[p].op = "save_article"
        /\ sess[p].stage = "commit"
        /\ sess[p].arg.pmid = a.pmid
        /\ sess[p].arg.title # a.title

\* C28: in every report record article_count is the number of entries of
\* article_ids.
C28_CountMatchesIds == \A r \in reports : r.article_count = Len(r.article_ids)

\* C28 witness: a report record with two article identifiers is stored.
C28_Witness == \E r \in reports : Len(r.article_ids) = 2 /\ r.article_count = 2

\* --------------------------------------------------- claims on the pipeline
Done(p) == pc[p] = "done"

Fetched(p) == {run[p].articles[i] : i \in 1..Len(run[p].articles)}

\* The run created nothing: no generate_all call, no article row, no report
\* identifier or record, no file.
NoEffects(p) ==
    /\ run[p].gen = 0
    /\ run[p].saved = {}
    /\ run[p].report_id = 0
    /\ run[p].wrote = {}
    /\ \A a \in Pmids : <<p, run[p].no, a>> \notin generated

\* C1: dedup idempotence.  When a slot's previous run was a completed
\* non-dry run and its next run fetches the same articles, all of them
\* stored by then, the next run finds no new article, makes no generate_all
\* call and creates no report and no file.
C1_DedupIdempotence ==
    \A p \in Procs :
        (/\ run[p].fetched
         /\ prev[p].ret \in {"True", "None"} /\ ~prev[p].dry_run
         /\ prev[p].articles = run[p].articles
         /\ Fetched(p) \subseteq run[p].store0)
        => (run[p].new_articles = <<>> /\ NoEffects(p) /\ pc[p] # "assemble")

\* C1 witness: the CLI ran twice on the same two articles, the first run
\* non-dry, and the second run is over.
C1_Witness ==
    /\ Done("cli") /\ run["cli"].no = 2 /\ run["cli"].fetched
    /\ prev["cli"].ret = "True" /\ ~prev["cli"].dry_run
    /\ prev["cli"].articles = run["cli"].articles
    /\ Len(run["cli"].articles) = 2
    /\ Fetched("cli") \subseteq run["cli"].store0

\* C2 (as claimed): each article identifier is passed to generate_all by at
\* most one run and is listed by at most one report.
C2_ArticleProcessedOnce ==
    \A a \in Pmids :
        /\ Cardinality({g \in generated : g[3] = a}) <= 1
        /\ Cardinality({r \in reports :
               \E i \in 1..Len(r.article_ids) : r.article_ids[i] = a}) <= 1

\* C7 (as claimed): a run that got past search and fetch and is over has
\* left one search-history entry counting the fetched articles and those of
\* them that were not in the store.
C7_RunRecordsHistory ==
    \A p \in Procs :
        (Done(p) /\ run[p].fetched) =>
            \E h \in search_history :
                /\ h.total_found = Len(run[p].articles)
                /\ h.new_articles = Cardinality(Fetched(p) \ run[p].store0)

\* C8 (as claimed): a run that fetched nothing, or only articles already in
\* the store, ends as a success and has created no report, generated no
\* content and added no article.
C8_NothingNewEndsClean ==
    \A p \in Procs :
        (Done(p) /\ run[p].fetched /\ Fetched(p) \subseteq run[p].store0)
        => /\ run[p].failed = "no"
           /\ run[p].ret = (IF p = "cli" THEN "True" ELSE "None")
           /\ run[p].new_articles = <<>>
           /\ NoEffects(p)

\* C8 (amended): a run that fetched nothing, or only articles already in
\* the store, has created no report, generated no content and added no
\* article; it ends as a success unless a lookup of the dedup check raised,
\* and then it ends as a failure: the exception leaves run_search and main
\* turns it into exit code 1, _run_search prints it.
C8_NothingNewCreatesNothing ==
    \A p \in Procs :
        (Done(p) /\ run[p].fetched /\ Fetched(p) \subseteq run[p].store0)
        => /\ run[p].new_articles = <<>>
           /\ NoEffects(p)
           /\ run[p].failed \in {"no", "dedup"}
           /\ run[p].failed = "no"
                 => run[p].ret = (IF p = "cli" THEN CliOnSuccess ELSE SchedReturn)
           /\ run[p].failed = "dedup"
                 => /\ run[p].ret = (IF p = "cli" THEN CliOnRaise ELSE SchedReturn)
                    /\ run[p].articles # <<>>

\* C8 witness: a scheduled run whose two fetched articles were both in the
\* store is over.
C8_Witness ==
    /\ Done("sched") /\ run["sched"].fetched
    /\ Len(run["sched"].articles) = 2
    /\ Fetched("sched") \subseteq run["sched"].store0

\* C9 (as claimed): a dry run makes no generate_all call, saves no article
\* and creates no report record and no report file.
C9_DryRunCreatesNothing ==
    \A p \in Procs :
        run[p].dry_run =>
            /\ NoEffects(p)
            /\ \A r \in reports : r.id # run[p].report_id

\* A step in which run p leaves translation or search through an except
\* branch.
FailsEarly(p) ==
    /\ pc[p] \in {"translate", "search"}
    /\ pc'[p] = "done"
    /\ run'[p].failed # "no"

\* C10 (as claimed): an exception in translation or search is caught, the
\* run returns false, no report is created and nothing saved is undone.
C10_EarlyFailureReturnsFalse ==
    [][\A p \in Procs : FailsEarly(p) =>
          /\ run'[p].ret = "False"
          /\ run'[p].report_id = 0 /\ reports' = reports /\ files' = files
          /\ articles' = articles]_vars

\* C10 (amended): an exception in translation or search is caught; the CLI
\* run returns false, the scheduled run prints the error and returns None
\* as on every path; no report is created and nothing saved is undone.
C10_EarlyFailureCaught ==
    [][\A p \in Procs : FailsEarly(p) =>
          /\ run'[p].ret = (IF p = "cli" THEN "False" ELSE "None")
          /\ run'[p].failed = pc[p]
          /\ run'[p].report_id = 0 /\ reports' = reports /\ files' = files
          /\ articles' = articles]_vars

\* C10 witness: with an article in the store, a CLI run failed in search
\* and returned False.
C10_Witness ==
    /\ Done("cli") /\ run["cli"].failed = "search" /\ run["cli"].ret = "False"
    /\ articles # {}

\* The articles a run has passed through generate_all with a result.
GenOk(p) ==
    {run[p].new_articles[j].pmid :
        j \in {k \in 1..Len(run[p].new_articles) : run[p].new_articles[k].has_content}}

\* C11: every article a step adds to the store is the article a pipeline
\* run is saving, the run is not a dry run, generate_all has returned a
\* content mapping for the article in that run and has not raised for it.
C11_SavedAfterGenerated ==
    [][\A a \in articles' \ articles :
          \E p \in Procs :
             /\ pc[p] = "commit" /\ pc'[p] = "loop"
             /\ a.pmid = run[p].articles[run[p].i]
             /\ ~run[p].dry_run
             /\ a.pmid \in GenOk(p)
             /\ a.pmid \notin run[p].raised]_vars

\* C11 witness: in one CLI run generate_all raised for an article, which is
\* not in the store, and another article was generated and saved.
C11_Witness ==
    /\ run["cli"].raised # {} /\ run["cli"].saved # {}
    /\ \A m \in run["cli"].raised : ~article_exists(m)

\* ------------------------------------------- claims on runs and reports
\* The new articles of a run: the list run_search and _run_search hand to
\* create_report.
NewCount(p) == Len(run[p].new_articles)

\* The content files written under the identifier of one create_report call.
ContentFilesOf(id) == {f \in files : f.path[3] = id /\ f.path[1] \in Variants}

\* The report record of run p with the count, identifiers and files of its
\* new articles.
ReportOfRun(p) ==
    {r \in reports :
        /\ r.id = run[p].report_id
        /\ r.article_count = NewCount(p)
        /\ r.article_ids = ArticleIds(run[p].new_articles)}

\* The last store call of run p was a save_report whose commit failed.
ReportWriteFailed(p) == sess[p].op = "save_report" /\ ~sess[p].wrote

AllModelCallsFailed(p) ==
    /\ run[p].raised = {}
    /\ \A j \in 1..NewCount(p) :
          /\ run[p].new_articles[j].has_content
          /\ \A v \in Variants : run[p].new_articles[j].content[v][3] # "llm"

\* Every new article of the run has the four variants, each a fallback
\* text; the run ended as a success; its new articles are in the store and
\* its report record exists.
FallbackRunComplete(p) ==
    /\ \A j \in 1..NewCount(p) :
          /\ DOMAIN run[p].new_articles[j].content = Variants
          /\ \A v \in Variants : run[p].new_articles[j].content[v][3] = "fallback"
          /\ run[p].new_articles[j].pmid \in StoredPmids
    /\ run[p].failed = "no"
    /\ run[p].ret = (IF p = "cli" THEN CliOnSuccess ELSE SchedReturn)
    /\ Cardinality(ReportOfRun(p)) = 1

CreateReportReturns(p) == pc[p] = "persist" /\ pc'[p] # "persist"

\* C23: report file correspondence.  In the step in which create_report
\* returns, every path recorded for the report has a file holding the text
\* generated for that variant and item, and the store holds a report record
\* with the identifier, file_paths and article_ids of the returned report.
C23_ReportFileCorrespondence ==
    [][\A p \in Procs :
          CreateReportReturns(p) =>
             /\ \A path \in run[p].wrote :
                   \E f \in files' :
                      /\ f.path = path
                      /\ f.text = run[p].new_articles[path[2] + 1].content[path[1]]
             /\ \E r \in reports' :
                   /\ r.id = run[p].report_id
                   /\ r.file_paths = run[p].wrote
                   /\ r.article_ids = ArticleIds(run[p].new_articles)]_vars

\* The dedup check of an article is still to come in run p.
DedupPending(p) == pc[p] = "loop" /\ run[p].i <= Len(run[p].articles)

\* The dedup filter is over before any generate_all call of the run.
DedupBeforeGeneration == \A p \in Procs : DedupPending(p) => run[p].gen = 0

\* Report assembly starts after the loop over the fetched articles.
GenerationBeforeAssembly ==
    \A p \in Procs :
        pc[p] \in {"assemble", "persist", "summary"}
            => /\ run[p].i > Len(run[p].articles)
               /\ sess[p].stage \in {"closed", "returned"}

\* A run that ended after report assembly has recorded a history entry.
HistoryBeforeDone ==
    \A p \in Procs :
        (Done(p) /\ run[p].failed = "no" /\ run[p].report_id # 0) => search_history # {}

\* C25: the phases of a run occur in the stated order: the dedup filter over
\* all fetched articles is over before generation starts, generation and
\* persistence of every article precede report assembly, and history is
\* recorded after assembly, before the run is done.
C25_LinearPhases ==
    /\ DedupBeforeGeneration
    /\ GenerationBeforeAssembly
    /\ HistoryBeforeDone

\* Run p is under way.
Running(p) == pc[p] \notin {"idle", "done"}

\* What main returns for a run of the CLI: 0 when run_search returned True,
\* 1 when it returned False or raised.
ExitCode(ret) == IF ret = CliOnSuccess THEN 0 ELSE 1

\* Run p has ended with an outcome: run_search returned True or False, or
\* raised into main's except branch; _run_search returned.
Ended(p) ==
    /\ Done(p)
    /\ IF p = "cli"
       THEN /\ run[p].ret \in {CliOnSuccess, CliOnError, CliOnRaise}
            /\ ExitCode(run[p].ret) = 1 <=> run[p].failed # "no"
       ELSE run[p].ret = SchedReturn

\* C26: every run terminates.  Whatever translation, search, fetch,
\* generation and store calls do (return or fail), a run that has started
\* eventually ends with a success or failure outcome: an exception is caught
\* in run_search, in main or in _run_search.
C26_RunTerminates == \A p \in Procs : Running(p) ~> Ended(p)

\* C26 witness: a CLI run has ended as a failure after it generated and
\* saved one article and the dedup lookup of the next one raised.
C26_Witness ==
    /\ Ended("cli")
    /\ run["cli"].ret = CliOnRaise
    /\ run["cli"].gen > 0
    /\ run["cli"].saved # {}

\* C29: when a non-dry run has finished having created a report, every
\* article identifier of that report is in the article store.
C29_ReportedArticlesStored ==
    \A p \in Procs :
        (Done(p) /\ ~run[p].dry_run) =>
            \A r \in reports :
                r.id = run[p].report_id =>
                    \A j \in 1..Len(r.article_ids) : r.article_ids[j] \in StoredPmids

\* --------------------------------------- claims on the content generator
\* The mappings generate_all has returned or is about to return, each with
\* its article and what every model call did.
Returning ==
    {cg.new_articles[j] :
        j \in {n \in 1..Len(cg.new_articles) : cg.new_articles[n].has_content}}
    \cup (IF cg.stage = "return"
          THEN {[article |-> CgArticle, has_content |-> TRUE, content |-> cg.content,
                 outcome |-> cg.outcome]}
          ELSE {})

FailedVariants(item) == {v \in DOMAIN item.outcome : item.outcome[v].kind # "ok"}

\* C12: generate_all returns a mapping with exactly the four variant keys
\* whatever subset of the model calls fails; a variant whose call failed
\* holds its fallback template and every other variant holds the stripped
\* answer of its own call.
C12_FourVariantsAlways ==
    \A item \in Returning :
        /\ DOMAIN item.content = Variants
        /\ DOMAIN item.outcome = Variants
        /\ \A v \in Variants :
              IF v \in FailedVariants(item)
              THEN item.content[v] = Fallback(v, item.article)
              ELSE item.content[v] = <<"r">>

\* C12 witness: a returned mapping of which only the wechat_long call failed.
C12_Witness ==
    \E item \in Returning :
        /\ FailedVariants(item) = {"wechat_long"}
        /\ item.content["wechat_long"] # item.content["wechat_short"]

\* The model calls made for the i-th article, in the order made.
CallsFor(i) == SelectSeq(cg.calls, LAMBDA c : c[1] = i)

\* One generate_all call: four model calls, one per variant in the order of
\* the mapping, none repeated, never two in flight.
FourSequentialCalls ==
    /\ Cardinality(cg.inflight) <= 1
    /\ \A i \in 1..Len(cg.articles) :
          /\ Len(CallsFor(i)) <= Cardinality(Variants)
          /\ \A n \in 1..Len(CallsFor(i)) : CallsFor(i)[n] = <<i, VariantOrder[n]>>
          /\ (i < cg.i \/ (i = cg.i /\ cg.stage = "return")) /\ ~cg.dry_run
                => Len(CallsFor(i)) = Cardinality(Variants)

\* C13 (as claimed): one generate_all call makes four model calls, one per
\* variant, one after another and none again after a failure, and a run with
\* N new articles makes 4N of them.
C13_FourCallsPerNewArticle ==
    /\ FourSequentialCalls
    /\ cg.stage = "done" => Len(cg.calls) = Cardinality(Variants) * Len(cg.new_articles)

\* C13 (amended): one generate_all call makes four model calls, one per
\* variant, one after another and none again after a failure; a run that is
\* not a dry run makes 4N of them for its N new articles, and a dry run
\* makes none.
C13_FourCallsPerGeneratedArticle ==
    /\ FourSequentialCalls
    /\ cg.stage = "done" =>
          /\ Len(cg.new_articles) = Len(cg.articles)
          /\ Len(cg.calls) = IF cg.dry_run THEN 0
                             ELSE Cardinality(Variants) * Len(cg.new_articles)

\* C13 witness: a run over two new articles has ended after eight model
\* calls, some of which failed.
C13_Witness ==
    /\ cg.stage = "done" /\ ~cg.dry_run
    /\ Len(cg.articles) = MaxGenArticles
    /\ Len(cg.calls) = Cardinality(Variants) * MaxGenArticles
    /\ cg.fallbacks # {}

C15_QueryFallback ==
    /\ qg.stage # "raised"
    /\ Len(qg.queries) = Len(qg.outcome)
    /\ \A n \in 1..Len(qg.calls) : qg.calls[n] = n
    /\ Len(qg.calls) = (IF qg.stage = "await" THEN qg.i ELSE qg.i - 1)
    /\ qg.stage = "done" => Len(qg.queries) = Len(qg.interests)
    /\ \A j \in 1..Len(qg.queries) :
          IF qg.outcome[j] = "ok"
          THEN qg.queries[j] = <<"q">>
          ELSE /\ Len(qg.queries[j]) = Len(qg.interests[j]) + 3
               /\ qg.queries[j][1] = "("
               /\ SubSeq(qg.queries[j], 2, Len(qg.interests[j]) + 1) = qg.interests[j]
               /\ qg.queries[j][Len(qg.interests[j]) + 2] = ")"
               /\ qg.queries[j][Len(qg.interests[j]) + 3] = "[Title/Abstract]"

\* C15 witness: generate_queries has returned three queries, the first and
\* the last of them fallbacks after different kinds of failure.
C15_Witness ==
    /\ qg.stage = "done" /\ Len(qg.queries) = 3
    /\ qg.outcome[1] = "timeout" /\ qg.outcome[2] = "ok" /\ qg.outcome[3] = "malformed"
    /\ qg.interests[1] # qg.interests[3]

\* Where the j-th query starts in the joined text: every query before it
\* takes its length, two parentheses and one " OR ".
RECURSIVE JoinedOffset(_, _)
JoinedOffset(queries, j) ==
    IF j = 1 THEN 1 ELSE JoinedOffset(queries, j - 1) + Len(queries[j - 1]) + 3

\* C16: combine_queries returns a single query unchanged; two or more
\* queries are each put in parentheses and joined by " OR " in input order.
C16_CombineQueries ==
    qg.stage = "done" =>
        LET n == Len(qg.queries)
            off(j) == JoinedOffset(qg.queries, j)
        IN  /\ n = 1 => qg.combined = qg.queries[1]
            /\ n >= 2 =>
                  /\ Len(qg.combined) = off(n) + Len(qg.queries[n]) + 1
                  /\ \A j \in 1..n :
                        /\ qg.combined[off(j)] = "("
                        /\ SubSeq(qg.combined, off(j) + 1, off(j) + Len(qg.queries[j]))
                              = qg.queries[j]
                        /\ qg.combined[off(j) + Len(qg.queries[j]) + 1] = ")"
                        /\ j < n => qg.combined[off(j) + Len(qg.queries[j]) + 2] = " OR "

\* C16 witness: three queries of different lengths have been combined.
C16_Witness ==
    /\ qg.stage = "done" /\ Len(qg.queries) = 3
    /\ Len(qg.queries[1]) # Len(qg.queries[2])
    /\ Len(qg.queries[2]) # Len(qg.queries[3])
    /\ qg.combined # <<>>

\* C16, the single query: one query has been combined.
C16_SingleWitness == qg.stage = "done" /\ Len(qg.queries) = 1 /\ qg.combined = qg.queries[1]

\* --------------------------------------- claims on the literature client
\* C17: search never raises; when the request fails, answers with an error
\* status or cannot be parsed, it returns the empty identifier sequence, and
\* search_and_fetch then returns no article without any detail request.
C17_SearchNeverRaises ==
    /\ pm.stage # "raised"
    /\ pm.resp \in SearchErrors =>
          /\ pm.pmids = <<>>
          /\ pm.requests = <<>> /\ pm.articles = <<>> /\ pm.fetch_error = "none"
          /\ pm.stage \in {"fetch", "done"}

\* C17 witness: search_and_fetch has returned after an esearch answer that
\* was not JSON.
C17_Witness == pm.stage = "done" /\ pm.resp = "not_json" /\ pm.articles = <<>>

\* ceil(n / batch_size)
NumBatches(n) == (n + batch_size - 1) \div batch_size

RECURSIVE Concat(_)
Concat(seqs) == IF seqs = <<>> THEN <<>> ELSE Head(seqs) \o Concat(Tail(seqs))

\* C18: when fetch_articles has returned it has issued ceil(n / 100) detail
\* requests for its n identifiers, each of at most 100 identifiers, which
\* together carry every identifier once in input order.
C18_BatchSizeInvariant ==
    pm.stage = "done" =>
        /\ Len(pm.requests) = NumBatches(Len(pm.pmids))
        /\ \A b \in 1..Len(pm.requests) : Len(pm.requests[b]) <= batch_size
        /\ Concat(pm.requests) = pm.pmids

\* The records of the nodes of a document that satisfy keep, in the order
\* of the document.
RecordsOf(nodes, keep(_)) ==
    LET kept == SelectSeq(nodes, keep)
    IN  [j \in 1..Len(kept) |-> [pmid |-> kept[j].pmid, title |-> kept[j].title]]

HasBoth(node) == node.pmid # "" /\ node.title # ""

HasBothAndParses(node) == HasBoth(node) /\ ~node.broken

\* C19 (as claimed): the output of fetch_articles holds a record for a node
\* of a fetched document exactly when the node has a non-empty identifier
\* and a non-empty title.
C19_RecordIffIdAndTitle ==
    pm.articles = Concat([b \in 1..Len(pm.docs) |-> RecordsOf(pm.docs[b], HasBoth)])

\* C19 (amended): the output of fetch_articles holds a record for a node of
\* a fetched document exactly when the node has a non-empty identifier and
\* a non-empty title and reading its fields raised no error.
C19_RecordIffIdTitleAndParsed ==
    pm.articles =
        Concat([b \in 1..Len(pm.docs) |-> RecordsOf(pm.docs[b], HasBothAndParses)])

\* C19 witness: fetch_articles has returned one record from two documents:
\* of the first a node with both fields is kept and a node without title is
\* not, of the second a node with both fields whose parsing raised is not.
C19_Witness ==
    /\ pm.stage = "done" /\ Len(pm.articles) = 1 /\ Len(pm.docs) = 2
    /\ Len(pm.docs[1]) = 2
    /\ HasBothAndParses(pm.docs[1][1])
    /\ pm.docs[1][2].title = "" /\ pm.docs[1][2].pmid # "" /\ ~pm.docs[1][2].broken
    /\ Len(pm.docs[2]) = 1
    /\ HasBoth(pm.docs[2][1]) /\ pm.docs[2][1].broken

HasBroken(nodes) == \E j \in 1..Len(nodes) : nodes[j].broken

\* C20: the turn of the loop that parses a document with a node whose
\* parsing raises adds the records of the other nodes of the document,
\* raises nothing and leaves the loop running on the next batch.
C20_NodeErrorSkipsNode ==
    [][(pm.stage = "batch" /\ Len(pm'.docs) = Len(pm.docs) + 1
        /\ HasBroken(pm'.docs[Len(pm'.docs)]))
       => /\ pm'.stage = "batch" /\ pm'.fetch_error = "none"
          /\ pm'.i = pm.i + batch_size
          /\ pm'.articles =
                pm.articles \o RecordsOf(pm'.docs[Len(pm'.docs)], HasBothAndParses)]_vars

\* C20 witness: the first document had a node that raised before a node
\* that was kept, and fetch_articles has returned that record and a record
\* of the second batch.
C20_Witness ==
    /\ pm.stage = "done" /\ pm.fetch_error = "none" /\ Len(pm.docs) = 2
    /\ Len(pm.docs[1]) = 2 /\ pm.docs[1][1].broken /\ HasBothAndParses(pm.docs[1][2])
    /\ Len(pm.docs[2]) = 1 /\ HasBothAndParses(pm.docs[2][1])
    /\ Len(pm.articles) = 2

\* ------------------------------------ claims on the web search operation
\* A step of do_search.
WebStep == web' # web

\* The lookup of one fetched article in this step.
WebLookup == web.stage = "filter" /\ web'.stage = "filter" /\ web'.i = web.i + 1

\* C30: every history entry do_search writes has 0 <= new_articles <=
\* total_found, total_found being the number of fetched articles and
\* new_articles the number of those a lookup did not find in the store when
\* it was made; a step of do_search adds or changes no article, no report
\* and no report file.
C30_WebHistoryCounts ==
    /\ [](\A h \in search_history :
            0 <= h.new_articles /\ h.new_articles <= h.total_found)
    /\ [][WebStep =>
            /\ articles' = articles /\ reports' = reports /\ files' = files
            /\ WebLookup =>
                  web'.new_articles =
                     IF web.articles[web.i] \in StoredPmids
                     THEN web.new_articles
                     ELSE Append(web.new_articles, web.articles[web.i])
            /\ search_history' # search_history =>
                  \E h \in search_history' :
                     /\ h \notin search_history
                     /\ search_history' = search_history \cup {h}
                     /\ h.total_found = Len(web.articles)
                     /\ h.new_articles = Len(web.new_articles)
                     /\ web.i > Len(web.articles)]_vars

\* C30 witness: do_search has answered a request that fetched two articles,
\* one of them stored at its lookup, and the history holds the entry with
\* total_found 2 and new_articles 1.
C30_Witness ==
    /\ web.stage = "done" /\ web.status = "success"
    /\ Len(web.articles) = 2 /\ Len(web.new_articles) = 1
    /\ sess["web"].op = "save_search_history" /\ sess["web"].wrote
    /\ \E h \in search_history :
          h.id = sess["web"].key /\ h.total_found = 2 /\ h.new_articles = 1

====
